---- MODULE Spec2Model ----
(***************************************************************************)
(* A model of the SequentialAgents coding-agent CLI:                       *)
(*   - the workspace sandbox and file operations (workspace_manager.py),   *)
(*   - the search/replace edit engine (WorkspaceManager.apply_file_edit),  *)
(*   - the tool dispatcher (tool_executor.py),                             *)
(*   - the autonomous loop of one user turn (main.py, process_bot_turn).   *)
(* Text is a sequence of one-character strings; a path is a sequence of    *)
(* names (its components below "/").                                       *)
(***************************************************************************)
EXTENDS Integers, Sequences, FiniteSets, TLC

VARIABLES
    workspace_path,  \* WorkspaceManager.workspace_path (canonical components)
    files,           \* the regular files on disk: canonical path -> raw text
    dirs,            \* the directories on disk: set of canonical paths
    symlinks,        \* the symbolic links on disk: canonical path -> target
    touched,         \* canonical paths a file-system primitive was applied to
    last,            \* the last workspace operation: its inputs and result
    nOps,            \* workspace operations (SpecPath, SpecEdit) or user commands (SpecCli) so far
    provider,        \* ConfigManager active provider key
    messages,        \* TextualCLI.messages, the conversation history
    pc,              \* position of the CLI: "idle", "model" or "tools"
    loop_count,      \* loop_count of process_bot_turn
    tool_calls,      \* the batch being dispatched (response['calls'])
    idx,             \* calls of the batch dispatched so far (index i of the next)
    ended,           \* how the last turn left its loop
    turn,            \* ghost: what happened during the current turn
    stub,            \* the model stub: free choices left, last response
    loaded_context,  \* TextualCLI.loaded_context (empty: None)
    managed_context  \* ChatSessionService.managed_context: <<path, content>> pairs

fsVars   == <<workspace_path, files, dirs, symlinks, touched, last, nOps>>
ctxVars  == <<loaded_context, managed_context>>
loopVars == <<provider, messages, pc, loop_count, tool_calls, idx, ended, turn, stub,
              loaded_context, managed_context>>
vars     == <<workspace_path, files, dirs, symlinks, touched, last, nOps,
              provider, messages, pc, loop_count, tool_calls, idx, ended, turn, stub,
              loaded_context, managed_context>>

(***************************************************************************)
(* Characters and text                                                     *)
(***************************************************************************)
LF == "\n"
CR == "\r"
SP == " "
TAB == "\t"
\* U+00A0, a space that ends no line and is neither " " nor "\t"
NBSP == "nbsp"

Whitespace == {SP, TAB, LF, CR, NBSP}

None == "<None>"

Concat(ss) == LET RECURSIVE cat(_)
                  cat(k) == IF k > Len(ss) THEN <<>> ELSE ss[k] \o cat(k + 1)
              IN cat(1)

\* s[i:j] of Python for 0-based i <= j (clipped to the text)
Slice(s, i, j) == SubSeq(s, i + 1, IF j > Len(s) THEN Len(s) ELSE j)

\* s.startswith(p)
StartsWith(s, p) == Len(p) <= Len(s) /\ SubSeq(s, 1, Len(p)) = p

\* s.endswith(p)
EndsWith(s, p) == Len(p) <= Len(s) /\ SubSeq(s, Len(s) - Len(p) + 1, Len(s)) = p

\* the 0-based offsets at which p starts in s
Offsets(s, p) == {i \in 0..(Len(s) - Len(p)) : Slice(s, i, i + Len(p)) = p}

\* p in s
Contains(s, p) == Offsets(s, p) # {}

Max(S) == CHOOSE x \in S : \A y \in S : y <= x

Min(S) == CHOOSE x \in S : \A y \in S : x <= y

\* s.find(p, from): the first offset >= from, or -1
Find(s, p, from) == LET later == {i \in Offsets(s, p) : i >= from}
                    IN IF later = {} THEN -1 ELSE Min(later)

\* s.count(p): the occurrences met scanning left to right, none overlapping
\* the one before it; the empty text is counted once at every position
RECURSIVE CountFrom(_, _, _)
CountFrom(s, p, from) ==
    IF p = <<>> THEN Len(s) - from + 1
    ELSE LET at == Find(s, p, from)
         IN IF at = -1 THEN 0 ELSE 1 + CountFrom(s, p, at + Len(p))

Count(s, p) == CountFrom(s, p, 0)

\* s.replace(p, r, 1): the leftmost occurrence replaced
ReplaceFirst(s, p, r) ==
    LET at == Find(s, p, 0)
    IN IF at = -1 THEN s
       ELSE Slice(s, 0, at) \o r \o Slice(s, at + Len(p), Len(s))

\* s.splitlines(): lines end at "\n", "\r" or "\r\n"; no empty last line
RECURSIVE SplitFrom(_, _, _)
SplitFrom(s, i, cur) ==
    IF i > Len(s) THEN (IF cur = <<>> THEN <<>> ELSE <<cur>>)
    ELSE IF s[i] = CR /\ i < Len(s) /\ s[i + 1] = LF
         THEN <<cur>> \o SplitFrom(s, i + 2, <<>>)
    ELSE IF s[i] \in {LF, CR}
         THEN <<cur>> \o SplitFrom(s, i + 1, <<>>)
    ELSE SplitFrom(s, i + 1, Append(cur, s[i]))

splitlines(s) == SplitFrom(s, 1, <<>>)

\* s.lstrip(), s.rstrip(), s.strip()
RECURSIVE lstrip(_)
lstrip(s) == IF s # <<>> /\ Head(s) \in Whitespace THEN lstrip(Tail(s)) ELSE s

RECURSIVE rstrip(_)
rstrip(s) == IF s # <<>> /\ s[Len(s)] \in Whitespace
             THEN rstrip(SubSeq(s, 1, Len(s) - 1)) ELSE s

strip(s) == rstrip(lstrip(s))

\* sep.join(lines)
RECURSIVE Join(_, _)
Join(lines, sep) ==
    IF lines = <<>> THEN <<>>
    ELSE IF Len(lines) = 1 THEN lines[1]
    ELSE lines[1] \o sep \o Join(Tail(lines), sep)

\* what f.read() returns for a file opened in text mode with the default
\* newline=None: "\r\n" and "\r" are translated to "\n"
RECURSIVE ReadText(_)
ReadText(raw) ==
    IF raw = <<>> THEN <<>>
    ELSE IF Head(raw) = CR
         THEN <<LF>> \o ReadText(IF Len(raw) > 1 /\ raw[2] = LF
                                 THEN Tail(Tail(raw)) ELSE Tail(raw))
    ELSE <<Head(raw)>> \o ReadText(Tail(raw))

\* os.linesep of the platform (POSIX)
os_linesep == <<LF>>

\* what f.write(text) stores for a file opened in text mode with the
\* default newline=None: "\n" is translated to os.linesep
RECURSIVE WriteText(_)
WriteText(text) ==
    IF text = <<>> THEN <<>>
    ELSE (IF Head(text) = LF THEN os_linesep ELSE <<Head(text)>>)
         \o WriteText(Tail(text))

(***************************************************************************)
(* The edit engine: the part of apply_file_edit between reading the file   *)
(* and writing it back.  The result names the return statement taken and   *)
(* gives the text handed to f.write (write = FALSE: nothing is written).    *)
(***************************************************************************)
EditFailure(kind) == [success |-> FALSE, kind |-> kind, write |-> FALSE, text |-> <<>>]

EditSuccess(kind, text) == [success |-> TRUE, kind |-> kind, write |-> TRUE, text |-> text]

StripAll(lines) == [k \in 1..Len(lines) |-> strip(lines[k])]

\* the start indexes (0-based) collected by the scan of the fuzzy phase
FuzzyMatches(original_content, search_block) ==
    LET stripped_file_lines   == StripAll(splitlines(original_content))
        stripped_search_lines == StripAll(splitlines(search_block))
        n_search == Len(stripped_search_lines)
    IN {i \in 0..(Len(stripped_file_lines) - n_search) :
            Slice(stripped_file_lines, i, i + n_search) = stripped_search_lines}

\* the indentation auto-correction of the replacement block
CorrectIndent(line, replace_block) ==
    LET current_indent == SubSeq(line, 1, Len(line) - Len(lstrip(line)))
        replace_lines  == splitlines(replace_block)
    IN IF replace_lines # <<>> /\ current_indent # <<>>
          /\ ~StartsWith(replace_lines[1], <<SP>>)
          /\ ~StartsWith(replace_lines[1], <<TAB>>)
       THEN Join([k \in 1..Len(replace_lines) |-> current_indent \o replace_lines[k]], <<LF>>)
       ELSE replace_block

\* the reconstruction of the file around the replaced window
Reconstruct(file_lines, start_index, end_index, replace_block) ==
    LET pre_content  == Join(Slice(file_lines, 0, start_index), <<LF>>)
        post_content == Join(Slice(file_lines, end_index, Len(file_lines)), <<LF>>)
        head == IF pre_content # <<>> THEN pre_content \o <<LF>> ELSE <<>>
        sep  == IF ~EndsWith(replace_block, <<LF>>) /\ replace_block # <<>>
                THEN <<LF>> ELSE <<>>
    IN IF post_content # <<>>
       THEN head \o replace_block \o sep \o post_content
       ELSE head \o replace_block

\* the fuzzy phase without its ambiguity test: the first window is taken
FuzzyPhaseFirst(original_content, search_block, replace_block) ==
    LET file_lines == splitlines(original_content)
        n_search   == Len(splitlines(search_block))
        matches    == FuzzyMatches(original_content, search_block)
    IN IF n_search = 0 THEN EditFailure("empty_search")
       ELSE IF Cardinality(matches) = 0 THEN EditFailure("no_match")
       ELSE LET start_index == Min(matches)
                end_index   == start_index + n_search
                block == CorrectIndent(file_lines[start_index + 1], replace_block)
            IN EditSuccess("fuzzy", Reconstruct(file_lines, start_index, end_index, block))

FuzzyPhase(original_content, search_block, replace_block) ==
    LET file_lines == splitlines(original_content)
        n_search   == Len(splitlines(search_block))
        matches    == FuzzyMatches(original_content, search_block)
    IN IF n_search = 0 THEN EditFailure("empty_search")
       ELSE IF Cardinality(matches) = 0 THEN EditFailure("no_match")
       ELSE IF Cardinality(matches) > 1 THEN EditFailure("ambiguous_fuzzy")
       ELSE LET start_index == Min(matches)
                end_index   == start_index + n_search
                block == CorrectIndent(file_lines[start_index + 1], replace_block)
            IN EditSuccess("fuzzy", Reconstruct(file_lines, start_index, end_index, block))

\* the ambiguity test of the exact phase off by one
ExactPhaseLax(original_content, search_block, replace_block) ==
    IF Count(original_content, search_block) > 2
    THEN EditFailure("ambiguous_exact")
    ELSE EditSuccess("exact", ReplaceFirst(original_content, search_block, replace_block))

ExactPhaseOverlaps(original_content, search_block, replace_block) ==
    IF Cardinality(Offsets(original_content, search_block)) > 1
    THEN EditFailure("ambiguous_exact")
    ELSE EditSuccess("exact", ReplaceFirst(original_content, search_block, replace_block))

ExactPhaseFirstOnly(original_content, search_block, replace_block) ==
    EditSuccess("exact", ReplaceFirst(original_content, search_block, replace_block))

ExactPhase(original_content, search_block, replace_block) ==
    IF Count(original_content, search_block) > 1
    THEN EditFailure("ambiguous_exact")
    ELSE EditSuccess("exact", ReplaceFirst(original_content, search_block, replace_block))

EditTextFuzzyFirst(original_content, search_block, replace_block) ==
    IF FuzzyPhase(original_content, search_block, replace_block).success
       \/ ~Contains(original_content, search_block)
    THEN FuzzyPhase(original_content, search_block, replace_block)
    ELSE ExactPhase(original_content, search_block, replace_block)

EditText(original_content, search_block, replace_block) ==
    IF Contains(original_content, search_block)
    THEN ExactPhase(original_content, search_block, replace_block)
    ELSE FuzzyPhase(original_content, search_block, replace_block)

(***************************************************************************)
(* Paths.  A canonical path is the sequence of its component names; its    *)
(* string is "/" for the root and "/n1/n2/..." otherwise.  A path argument *)
(* of a tool is a sequence of segments (names, "." or ".."), absolute when *)
(* it starts with "/".                                                     *)
(***************************************************************************)
NameChars(n) ==
    CASE n = "w"      -> <<"w">>
      [] n = "a"      -> <<"a">>
      [] n = "ab"     -> <<"a", "b">>
      [] n = "f"      -> <<"f">>
      [] n = "ln"     -> <<"l", "n">>
      [] n = "etc"    -> <<"e", "t", "c">>
      [] n = "passwd" -> <<"p", "a", "s", "s", "w", "d">>
      [] n = "."      -> <<".">>
      [] n = ".."     -> <<".", ".">>

PathStr(p) ==
    IF p = <<>> THEN <<"/">>
    ELSE Concat([k \in 1..Len(p) |-> <<"/">> \o NameChars(p[k])])

RelPath(segs) == [abs |-> FALSE, segs |-> segs]

AbsPath(segs) == [abs |-> TRUE, segs |-> segs]

\* os.path.join(root, path): an absolute path discards the root
PathJoin(root, path) == IF path.abs THEN path.segs ELSE root \o path.segs

Parent(p) == IF p = <<>> THEN <<>> ELSE SubSeq(p, 1, Len(p) - 1)

\* os.path.realpath: "." dropped, ".." steps to the parent of the resolved
\* prefix, a symbolic link replaced by its (canonical) target
RECURSIVE Resolve(_, _)
Resolve(cur, rest) ==
    IF rest = <<>> THEN cur
    ELSE LET seg  == Head(rest)
             next == Append(cur, seg)
         IN IF seg = "." THEN Resolve(cur, Tail(rest))
            ELSE IF seg = ".." THEN Resolve(Parent(cur), Tail(rest))
            ELSE IF next \in DOMAIN symlinks THEN Resolve(symlinks[next], Tail(rest))
            ELSE Resolve(next, Tail(rest))

realpath(segs) == Resolve(<<>>, segs)

\* the workspace is not set (workspace_path is None)
NoWorkspace == <<None>>

\* the security check of _resolve_and_check_path
InWorkspace(full_path, workspace_root) ==
    StartsWith(PathStr(full_path), PathStr(workspace_root))

resolve_and_check_path(path) ==
    IF workspace_path = NoWorkspace
    THEN [full_path |-> <<>>, error |-> "workspace_not_set"]
    ELSE LET workspace_root == realpath(workspace_path)
             full_path      == realpath(PathJoin(workspace_root, path))
         IN IF ~InWorkspace(full_path, workspace_root)
            THEN [full_path |-> <<>>, error |-> "security"]
            ELSE [full_path |-> full_path, error |-> None]

(***************************************************************************)
(* The file system under the operations of WorkspaceManager.  Each         *)
(* operation yields its result and the file system it leaves.              *)
(***************************************************************************)
Failure(kind) == [success |-> FALSE, error |-> kind]

Message(kind) == [success |-> TRUE, message |-> kind]

IsFile(p) == p \in DOMAIN files

IsDir(p) == p \in dirs

Exists(p) == IsFile(p) \/ IsDir(p)

\* p and the directories above it
Ancestors(p) == {SubSeq(p, 1, k) : k \in 0..Len(p)}

\* os.makedirs(p, exist_ok=True) succeeds
CanMakeDirs(p) == \A q \in Ancestors(p) : ~IsFile(q)

Outcome(result, newFiles, newDirs, full_path) ==
    [result |-> result, files |-> newFiles, dirs |-> newDirs, touched |-> touched \cup {full_path}]

\* the operation returned before any file-system primitive was called
Refused(kind) ==
    [result |-> Failure(kind), files |-> files, dirs |-> dirs, touched |-> touched]

StoreFile(p, text) == [q \in DOMAIN files \cup {p} |-> IF q = p THEN WriteText(text) ELSE files[q]]

RemoveFile(p) == [q \in DOMAIN files \ {p} |-> files[q]]

NameRank(n) ==
    CASE n = "a" -> 1 [] n = "ab" -> 2 [] n = "etc" -> 3 [] n = "f" -> 4
      [] n = "ln" -> 5 [] n = "passwd" -> 6 [] n = "w" -> 7

\* sorted(os.listdir(p)) as a sequence
RECURSIVE SortedNames(_)
SortedNames(S) ==
    IF S = {} THEN <<>>
    ELSE LET n == CHOOSE x \in S : \A y \in S : NameRank(x) <= NameRank(y)
         IN <<n>> \o SortedNames(S \ {n})

ListDir(p) ==
    {q[Len(q)] : q \in {r \in DOMAIN files \cup dirs \cup DOMAIN symlinks :
                          r # <<>> /\ Parent(r) = p}}

\* an entry of os.listdir names a directory (a link to one counts)
EntryIsDir(p, n) == IsDir(realpath(Append(p, n)))

list_files(path) ==
    LET r == resolve_and_check_path(path)
        p == r.full_path
        entries == SortedNames(ListDir(p))
        shown == SelectSeq(entries, LAMBDA n : NameChars(n)[1] # ".")
    IN IF r.error # None THEN Refused(r.error)
       ELSE IF ~Exists(p) THEN Outcome(Failure("dir_not_found"), files, dirs, p)
       ELSE IF ~IsDir(p) THEN Outcome(Failure("list_failed"), files, dirs, p)
       ELSE Outcome([success |-> TRUE,
                     files |-> [k \in 1..Len(shown) |->
                                  [name |-> shown[k], dir |-> EntryIsDir(p, shown[k])]]],
                    files, dirs, p)

read_file(path) ==
    LET r == resolve_and_check_path(path)
        p == r.full_path
    IN IF r.error # None THEN Refused(r.error)
       ELSE IF ~Exists(p) THEN Outcome(Failure("file_not_found"), files, dirs, p)
       ELSE IF IsDir(p) THEN Outcome(Failure("read_error"), files, dirs, p)
       ELSE Outcome([success |-> TRUE, content |-> ReadText(files[p])], files, dirs, p)

write_file(path, content) ==
    LET r == resolve_and_check_path(path)
        p == r.full_path
    IN IF r.error # None THEN Refused(r.error)
       ELSE IF ~CanMakeDirs(Parent(p)) \/ IsDir(p)
            THEN Outcome(Failure("write_error"), files, dirs, p)
       ELSE Outcome(Message("written"), StoreFile(p, content),
                    dirs \cup Ancestors(Parent(p)), p)

create_directory(path) ==
    LET r == resolve_and_check_path(path)
        p == r.full_path
    IN IF r.error # None THEN Refused(r.error)
       ELSE IF ~CanMakeDirs(p) THEN Outcome(Failure("mkdir_error"), files, dirs, p)
       ELSE Outcome(Message("created"), files, dirs \cup Ancestors(p), p)

delete_file(path) ==
    LET r == resolve_and_check_path(path)
        p == r.full_path
    IN IF r.error # None THEN Refused(r.error)
       ELSE IF ~IsFile(p) THEN Outcome(Failure("file_not_found"), files, dirs, p)
       ELSE Outcome(Message("deleted"), RemoveFile(p), dirs, p)

apply_file_edit(path, search_block, replace_block) ==
    LET r == resolve_and_check_path(path)
        p == r.full_path
    IN IF r.error # None THEN Refused(r.error)
       ELSE IF ~Exists(p) THEN Outcome(Failure("file_not_found"), files, dirs, p)
       ELSE IF IsDir(p) THEN Outcome(Failure("unexpected"), files, dirs, p)
       ELSE LET e == EditText(ReadText(files[p]), search_block, replace_block)
            IN IF e.success
               THEN Outcome(Message(e.kind), StoreFile(p, e.text), dirs, p)
               ELSE Outcome(Failure(e.kind), files, dirs, p)

(***************************************************************************)
(* Python and JSON values.  A str is a record naming what it holds: plain  *)
(* text (a sequence of words), the JSON encoding of a value, or text that  *)
(* is not JSON.  A decoded JSON value is an object (a mapping), an array   *)
(* or null.  A dict with optional keys is a record with those keys absent. *)
(***************************************************************************)
Str(words) == [text |-> "plain", value |-> words]

PyNone == [none |-> TRUE]

JObject(fields) == [type |-> "object", fields |-> fields]

JArray == [type |-> "array"]

EmptyDict == <<>>

\* json.dumps(v)
json_dumps(v) == [text |-> "json", value |-> v]

GarbageText == [text |-> "garbage"]

\* json.loads(s): TypeError when s is not a str, JSONDecodeError when it is
\* not the encoding of a value
json_loads(s) ==
    IF "text" \notin DOMAIN s THEN [raises |-> "TypeError"]
    ELSE IF s.text # "json" THEN [raises |-> "JSONDecodeError"]
    ELSE [raises |-> None, value |-> s.value]

\* d.get(key) of a dict whose values are names
GetName(d, key) == IF key \in DOMAIN d THEN d[key] ELSE None

\* the truth value of a name: None and "" are false
Truthy(name) == name # None /\ name # ""

(***************************************************************************)
(* The tool dispatcher (tool_executor.py)                                  *)
(***************************************************************************)
ToolNames == {"list_files", "read_file", "write_file", "create_directory",
              "delete_file", "apply_file_edit"}

\* the keyword parameters of the mapped methods
Params(function_name) ==
    CASE function_name = "list_files"       -> {"path"}
      [] function_name = "read_file"        -> {"path"}
      [] function_name = "write_file"       -> {"path", "content"}
      [] function_name = "create_directory" -> {"path"}
      [] function_name = "delete_file"      -> {"path"}
      [] function_name = "apply_file_edit"  -> {"path", "search_block", "replace_block"}

\* self.tool_map[function_name](**a) with the parameters bound
CallTool(function_name, a) ==
    CASE function_name = "list_files"       -> list_files(a.path)
      [] function_name = "read_file"        -> read_file(a.path)
      [] function_name = "write_file"       -> write_file(a.path, a.content)
      [] function_name = "create_directory" -> create_directory(a.path)
      [] function_name = "delete_file"      -> delete_file(a.path)
      [] function_name = "apply_file_edit"  ->
             apply_file_edit(a.path, a.search_block, a.replace_block)

\* list_files without a path is given path "."
WithDefaultPath(function_name, fields) ==
    IF function_name = "list_files" /\ "path" \notin DOMAIN fields
    THEN [k \in DOMAIN fields \cup {"path"} |->
             IF k = "path" THEN RelPath(<<".">>) ELSE fields[k]]
    ELSE fields

\* the keys of a mapping whose values are not str (a number, null, a list);
\* fields then holds the JSON text of such a value
NonStr(arguments) == IF "nonstr" \in DOMAIN arguments THEN arguments.nonstr ELSE {}

\* self.tool_map[function_name](**a) when the values of the keys in bad are
\* not str: os.path.join raises TypeError before any try block, the other
\* values raise inside the try block of the method that uses them
CallToolNonStr(function_name, a, bad) ==
    LET r == resolve_and_check_path(a.path)
        p == r.full_path
    IN IF "path" \in bad
       THEN IF workspace_path = NoWorkspace THEN Refused("workspace_not_set")
            ELSE Refused("argument_mismatch")
       ELSE IF r.error # None THEN Refused(r.error)
       ELSE IF function_name = "write_file"
       THEN IF ~CanMakeDirs(Parent(p)) \/ IsDir(p)
            THEN Outcome(Failure("write_error"), files, dirs, p)
            ELSE Outcome(Failure("write_error"), StoreFile(p, <<>>),
                         dirs \cup Ancestors(Parent(p)), p)
       ELSE \* apply_file_edit
            IF ~Exists(p) THEN Outcome(Failure("file_not_found"), files, dirs, p)
            ELSE IF IsDir(p) \/ "search_block" \in bad
            THEN Outcome(Failure("unexpected"), files, dirs, p)
            ELSE LET e == EditText(ReadText(files[p]), a.search_block, <<>>)
                 IN Outcome(Failure(IF e.success THEN "unexpected" ELSE e.kind),
                            files, dirs, p)

execute_tool(function_name, arguments) ==
    IF function_name \notin ToolNames THEN Refused("unknown_tool")
    ELSE IF arguments.type # "object" THEN Refused("argument_mismatch")
    ELSE LET a == WithDefaultPath(function_name, arguments.fields)
         IN IF DOMAIN a # Params(function_name) THEN Refused("argument_mismatch")
            ELSE IF NonStr(arguments) \cap DOMAIN a # {}
            THEN CallToolNonStr(function_name, a, NonStr(arguments))
            ELSE CallTool(function_name, a)

Returned(out, name, id) ==
    [raises |-> None, out |-> out, name |-> name, tool_call_id |-> id]

Raised(exception) ==
    [raises |-> exception, out |-> Refused(exception), name |-> None, tool_call_id |-> None]

\* steps 2 to 4 of process_tool_call
RunTool(function_name, arguments, tool_call_id) ==
    IF ~Truthy(function_name)
    THEN Returned(Refused("no_function_name"), None, None)
    ELSE Returned(execute_tool(function_name, arguments), function_name, tool_call_id)

process_tool_call(tool_call, active_provider) ==
    IF active_provider = "google"
    THEN RunTool(GetName(tool_call, "name"),
                 IF "args" \in DOMAIN tool_call THEN tool_call.args ELSE JObject(EmptyDict),
                 None)
    ELSE LET function == IF "function" \in DOMAIN tool_call
                         THEN tool_call.function ELSE EmptyDict
             function_name == GetName(function, "name")
             tool_call_id  == GetName(tool_call, "id")
             loaded == json_loads(IF "arguments" \in DOMAIN function
                                  THEN function.arguments
                                  ELSE json_dumps(JObject(EmptyDict)))
         IN IF loaded.raises = "JSONDecodeError"
            THEN Returned(Refused("invalid_json"), function_name, tool_call_id)
            ELSE IF loaded.raises # None THEN Raised(loaded.raises)
            ELSE RunTool(function_name, loaded.value, tool_call_id)

(***************************************************************************)
(* The conversation history and the state of the CLI outside a turn        *)
(***************************************************************************)
TOOL_BASED_AGENT_PROMPT == Str(<<"You", "are", "an", "agent">>)

TASK_FINISHED == <<"TASK_FINISHED">>

SystemMessage == [role |-> "system", content |-> TOOL_BASED_AGENT_PROMPT]

UserMessage(content) == [role |-> "user", content |-> content]

AssistantText(content) == [role |-> "assistant", content |-> content]

AssistantCalls(calls) == [role |-> "assistant", content |-> PyNone, tool_calls |-> calls]

ToolMessage(name, result, call_id) ==
    [role |-> "tool", name |-> name, content |-> json_dumps(result), tool_call_id |-> call_id]

NoTurn == [id |-> 0, responses |-> 0, toolResponses |-> 0, texts |-> 0, batches |-> 0]

NoResponse == [type |-> "none"]

\* self.loaded_context = None (an empty text is as false as None)
NoContext == <<>>

\* the user message of a turn that starts with context loaded
InjectLoaded(context, content) ==
    Str(context \o <<"\n--- User's Prompt ---\n">> \o content.value)

\* start_new_chat, with the response budget of the model stub
StartLoopVars(active_provider, free, offers) ==
    /\ provider = active_provider
    /\ messages = <<SystemMessage>>
    /\ pc = "idle"
    /\ loop_count = 0
    /\ tool_calls = <<>>
    /\ idx = 0
    /\ ended = "none"
    /\ turn = NoTurn
    /\ stub = [free |-> free, last |-> NoResponse, offers |-> offers]
    /\ loaded_context = NoContext
    /\ managed_context = <<>>

(***************************************************************************)
(* The disk the checks start from                                          *)
(*   /w/a/f   /w/ab/f   /etc/passwd   and optionally  /w/a/ln -> /w/ab     *)
(***************************************************************************)
InitialDirs == {<<>>, <<"w">>, <<"w", "a">>, <<"w", "ab">>, <<"etc">>}

InitialFiles ==
    [q \in {<<"w", "a", "f">>, <<"w", "ab", "f">>, <<"etc", "passwd">>} |-> <<"a">>]

NoLinks == [q \in {} |-> <<>>]

LinkOut == [q \in {<<"w", "a", "ln">>} |-> <<"w", "ab">>]

NoOp == [op |-> "none"]

\* one workspace operation takes effect
Apply(op, args, out) ==
    /\ files' = out.files
    /\ dirs' = out.dirs
    /\ touched' = out.touched
    /\ last' = [op |-> op, args |-> args, result |-> out.result,
                before |-> files, beforeDirs |-> dirs]
    /\ nOps' = nOps + 1
    /\ UNCHANGED <<workspace_path, symlinks>>
    /\ UNCHANGED loopVars

(***************************************************************************)
(* SpecPath: the workspace operations on paths of every shape              *)
(***************************************************************************)
MaxSegs == 3
MaxOps == 1

Roots == {<<>>, <<"w">>, <<"w", "a">>}

Segments == {"..", ".", "ab", "f", "ln"}

EtcPasswd == <<"..", "..", "etc", "passwd">>

SegSeqs(n) == UNION {[1..k -> Segments] : k \in 0..n}

PathArgs == {RelPath(s) : s \in SegSeqs(MaxSegs) \cup {EtcPasswd}}
            \cup {AbsPath(<<"etc", "passwd">>), AbsPath(<<"w", "a", "f">>)}

PathTexts == {<<"X">>, <<>>}

InitPath ==
    /\ workspace_path \in Roots
    /\ files = InitialFiles
    /\ dirs = InitialDirs
    /\ symlinks \in {NoLinks, LinkOut}
    /\ touched = {}
    /\ last = NoOp
    /\ nOps = 0
    /\ StartLoopVars("openai", 0, "all")

ListFiles ==
    \E path \in PathArgs :
        /\ nOps < MaxOps
        /\ Apply("list_files", [path |-> path], list_files(path))

ReadFile ==
    \E path \in PathArgs :
        /\ nOps < MaxOps
        /\ Apply("read_file", [path |-> path], read_file(path))

WriteFile ==
    \E path \in PathArgs, content \in PathTexts :
        /\ nOps < MaxOps
        /\ Apply("write_file", [path |-> path, content |-> content],
                 write_file(path, content))

CreateDirectory ==
    \E path \in PathArgs :
        /\ nOps < MaxOps
        /\ Apply("create_directory", [path |-> path], create_directory(path))

DeleteFile ==
    \E path \in PathArgs :
        /\ nOps < MaxOps
        /\ Apply("delete_file", [path |-> path], delete_file(path))

ApplyFileEdit ==
    \E path \in PathArgs, replace_block \in PathTexts :
        /\ nOps < MaxOps
        /\ Apply("apply_file_edit",
                 [path |-> path, search_block |-> <<"a">>, replace_block |-> replace_block],
                 apply_file_edit(path, <<"a">>, replace_block))

NextPath == ListFiles \/ ReadFile \/ WriteFile \/ CreateDirectory \/ DeleteFile
            \/ ApplyFileEdit

SpecPath == InitPath /\ [][NextPath]_vars

(***************************************************************************)
(* SpecEdit: apply_file_edit on every short file, search and replacement   *)
(***************************************************************************)
MaxFileLen == 3
MaxSearchLen == 2

EditAlphabet == {"a", SP, LF, CR}

Texts(n) == UNION {[1..k -> EditAlphabet] : k \in 0..n}

ReplaceBlocks == {<<>>, <<"X">>, <<"X", LF, "Y">>, <<SP, "X">>, <<"X", CR, LF>>, <<NBSP, "X">>}

EditedFile == <<"w", "a", "f">>

\* a file whose one line is bar behind a tab and before two spaces, and the
\* search for bar
TabBar == <<TAB, "b", "a", "r", SP, SP>>

Bar == <<"b", "a", "r">>

InitEdit ==
    /\ workspace_path = <<"w", "a">>
    /\ \E text \in Texts(MaxFileLen) \cup {TabBar} : files = [q \in {EditedFile} |-> text]
    /\ dirs = {<<>>, <<"w">>, <<"w", "a">>}
    /\ symlinks = NoLinks
    /\ touched = {}
    /\ last = NoOp
    /\ nOps = 0
    /\ StartLoopVars("openai", 0, "all")

EditFile ==
    \E search_block \in Texts(MaxSearchLen) \cup {Bar}, replace_block \in ReplaceBlocks :
        /\ last = NoOp
        /\ Apply("apply_file_edit",
                 [path |-> RelPath(<<"f">>), search_block |-> search_block,
                  replace_block |-> replace_block],
                 apply_file_edit(RelPath(<<"f">>), search_block, replace_block))

NextEdit == EditFile

SpecEdit == InitEdit /\ [][NextEdit]_vars

(***************************************************************************)
(* SpecRoundTrip: write_file of a text, then read_file of the same path    *)
(***************************************************************************)
\* an existing file, a new file, a new file in a new directory
RoundTripPaths == {RelPath(<<"f">>), RelPath(<<"ab">>), RelPath(<<"ab", "f">>)}

InitRoundTrip ==
    /\ workspace_path = <<"w", "a">>
    /\ files = InitialFiles
    /\ dirs = InitialDirs
    /\ symlinks = NoLinks
    /\ touched = {}
    /\ last = NoOp
    /\ nOps = 0
    /\ StartLoopVars("openai", 0, "all")

WriteThen ==
    \E path \in RoundTripPaths, content \in Texts(MaxFileLen) :
        /\ last = NoOp
        /\ Apply("write_file", [path |-> path, content |-> content],
                 write_file(path, content))

\* the read is recorded with the text that was written
ReadBack ==
    /\ last.op = "write_file"
    /\ Apply("read_file", last.args, read_file(last.args.path))

NextRoundTrip == WriteThen \/ ReadBack

SpecRoundTrip == InitRoundTrip /\ [][NextRoundTrip]_vars

(***************************************************************************)
(* SpecTool: _execute_tool on every name and every set of arguments        *)
(***************************************************************************)
ArgumentKeys == {"path", "content", "search_block", "replace_block", "mode"}

CalledNames == ToolNames \cup {"run_command"}

\* the value given to a key: a str, or the JSON text of a number
ArgumentValue(k, isStr) ==
    IF ~isStr THEN (IF k = "path" THEN RelPath(<<"5">>) ELSE <<"5">>)
    ELSE CASE k = "path"          -> RelPath(<<"f">>)
           [] k = "content"       -> <<"X">>
           [] k = "search_block"  -> <<"a">>
           [] k = "replace_block" -> <<"X">>
           [] k = "mode"          -> <<"w">>

\* the mappings over some of the keys, at most one value not a str
CalledArguments ==
    UNION {{[type |-> "object", fields |-> [k \in K |-> ArgumentValue(k, k \notin B)],
             nonstr |-> B] : B \in {{}} \cup {{k} : k \in K}} : K \in SUBSET ArgumentKeys}
    \cup {JArray}

InitTool ==
    /\ workspace_path = <<"w", "a">>
    /\ files = InitialFiles
    /\ dirs = InitialDirs
    /\ symlinks = NoLinks
    /\ touched = {}
    /\ last = NoOp
    /\ nOps = 0
    /\ StartLoopVars("openai", 0, "all")

ExecuteTool ==
    \E function_name \in CalledNames, arguments \in CalledArguments :
        /\ last = NoOp
        /\ Apply("execute_tool", [function_name |-> function_name, arguments |-> arguments],
                 execute_tool(function_name, arguments))

NextTool == ExecuteTool

SpecTool == InitTool /\ [][NextTool]_vars

(***************************************************************************)
(* Spec: the turns of the CLI (TextualCLI.run and process_bot_turn)        *)
(* against a model stub.  The stub answers its first MaxFree invocations   *)
(* freely and then repeats its last answer for ever.                       *)
(***************************************************************************)
MAX_LOOPS == 15

MaxFree == 2
MaxBatch == 2
MaxTurns == 2

Providers == {"openai", "google"}

WireId(i) == IF i = 1 THEN "id_a" ELSE IF i = 2 THEN "id_b" ELSE "id_c"

\* f"call_{i}" for the 0-based index i
SyntheticId(i) == IF i = 0 THEN "call_0" ELSE IF i = 1 THEN "call_1" ELSE "call_2"

TheFile == RelPath(<<"f">>)

WriteArgs == JObject([path |-> TheFile, content |-> <<"X">>])

ReadArgs == JObject([path |-> TheFile])

\* the tool calls the stub can put at position i of a batch, as they
\* arrive from a Family A (OpenAI-compatible) provider
OpenAICalls(i) ==
    { [id |-> WireId(i), type |-> "function",
       function |-> [name |-> "write_file", arguments |-> json_dumps(WriteArgs)]],
      [id |-> WireId(i), type |-> "function",
       function |-> [name |-> "read_file", arguments |-> json_dumps(ReadArgs)]],
      \* no function name
      [id |-> WireId(i), type |-> "function",
       function |-> [arguments |-> json_dumps(ReadArgs)]],
      \* no id
      [type |-> "function",
       function |-> [name |-> "read_file", arguments |-> json_dumps(ReadArgs)]],
      \* arguments that are not JSON
      [id |-> WireId(i), type |-> "function",
       function |-> [name |-> "read_file", arguments |-> GarbageText]],
      \* arguments already decoded: an object where a str is expected
      [id |-> WireId(i), type |-> "function",
       function |-> [name |-> "read_file", arguments |-> ReadArgs]],
      \* arguments that are JSON, but no mapping
      [id |-> WireId(i), type |-> "function",
       function |-> [name |-> "write_file", arguments |-> json_dumps(JArray)]] }

\* the functionCall parts a Family B (Google) provider can return
GoogleCalls ==
    { [name |-> "write_file", args |-> WriteArgs],
      [name |-> "read_file", args |-> ReadArgs],
      [name |-> "read_file"],
      [name |-> "", args |-> ReadArgs],
      [args |-> ReadArgs] }

CallsAt(active_provider, i) ==
    IF active_provider = "google" THEN GoogleCalls ELSE OpenAICalls(i)

\* the calls with a name, an id where the provider gives one, and the
\* arguments of the tool
PlainCallsAt(active_provider, i) ==
    IF active_provider = "google"
    THEN { [name |-> "write_file", args |-> WriteArgs],
           [name |-> "read_file", args |-> ReadArgs] }
    ELSE { [id |-> WireId(i), type |-> "function",
            function |-> [name |-> "write_file", arguments |-> json_dumps(WriteArgs)]],
           [id |-> WireId(i), type |-> "function",
            function |-> [name |-> "read_file", arguments |-> json_dumps(ReadArgs)]] }

\* the batches of exactly n calls
RECURSIVE BatchesOf(_, _)
BatchesOf(active_provider, n) ==
    IF n = 0 THEN {<<>>}
    ELSE {Append(b, c) : b \in BatchesOf(active_provider, n - 1),
                         c \in CallsAt(active_provider, n)}

Batches(active_provider) == UNION {BatchesOf(active_provider, n) : n \in 1..MaxBatch}

\* the batches the stub answers with: all of them, or those of plain calls
BatchesOffered(active_provider) ==
    {b \in Batches(active_provider) :
        stub.offers = "all"
        \/ \A k \in 1..Len(b) : b[k] \in PlainCallsAt(active_provider, k)}

ReplyTexts == {Str(<<"done", "TASK_FINISHED">>), Str(<<"which", "file">>)}

UserPrompt == Str(<<"fix", "it">>)

\* the responses of one type the stub may give now: any while its budget
\* lasts, then its last one again
StubGives(responses, type) ==
    IF stub.free > 0 THEN responses
    ELSE IF stub.last.type = type THEN {stub.last}
    ELSE {}

StubAfter(response) ==
    [stub EXCEPT !.free = IF stub.free > 0 THEN stub.free - 1 ELSE 0, !.last = response]

\* the calls are stored without their arguments
FormatCallSameId(tc, i) ==
    [id |-> SyntheticId(0), type |-> "function",
     function |-> [name |-> tc.name,
                   arguments |-> json_dumps(IF "args" \in DOMAIN tc
                                            THEN tc.args ELSE JObject(EmptyDict))]]

FormatCallNoArgs(tc, i) ==
    [id |-> SyntheticId(i), type |-> "function",
     function |-> [name |-> tc.name, arguments |-> json_dumps(JObject(EmptyDict))]]

\* the format of the calls for the history (main.py, "Format calls for history")
FormatCall(tc, i) ==
    [id |-> SyntheticId(i), type |-> "function",
     function |-> [name |-> tc.name,
                   arguments |-> json_dumps(IF "args" \in DOMAIN tc
                                            THEN tc.args ELSE JObject(EmptyDict))]]

FormatCalls(active_provider, calls) ==
    IF active_provider = "google"
    THEN [k \in 1..Len(calls) |-> FormatCall(calls[k], k - 1)]
    ELSE calls

\* tc['name'] raises KeyError while the calls are formatted
FormatRaises(active_provider, calls) ==
    active_provider = "google" /\ \E k \in 1..Len(calls) : "name" \notin DOMAIN calls[k]

\* keep_running stays set after every text response
KeepRunningAlways(content) == TRUE

\* keep_running is cleared only by the termination signal
KeepRunningUnlessFinished(content) == ~Contains(content.value, TASK_FINISHED)

\* keep_running after a text response
KeepRunningAfterText(content) ==
    IF Contains(content.value, TASK_FINISHED) THEN FALSE ELSE FALSE

\* the loop is left by break or return
Break(reason) ==
    /\ pc' = "idle"
    /\ ended' = reason
    /\ UNCHANGED loop_count

\* the end of an iteration: the while condition is evaluated again
NextIteration(keep_running, reason) ==
    IF keep_running /\ loop_count < MAX_LOOPS
    THEN /\ loop_count' = loop_count + 1
         /\ pc' = "model"
         /\ UNCHANGED ended
    ELSE Break(IF keep_running THEN "limit" ELSE reason)

Init ==
    /\ workspace_path \in {<<"w", "a">>, NoWorkspace}
    /\ files = InitialFiles
    /\ dirs = InitialDirs
    /\ symlinks = NoLinks
    /\ touched = {}
    /\ last = NoOp
    /\ nOps = 0
    /\ \E p \in Providers : StartLoopVars(p, MaxFree, "all")

\* the step counter is carried over from the turn before
UserInputKeepsCount ==
    /\ pc = "idle"
    /\ turn.id < MaxTurns
    /\ turn' = [NoTurn EXCEPT !.id = turn.id + 1]
    /\ workspace_path # NoWorkspace
    /\ messages' = Append(messages, UserMessage(UserPrompt))
    /\ pc' = IF loop_count < MAX_LOOPS THEN "model" ELSE "idle"
    /\ ended' = IF loop_count < MAX_LOOPS THEN "none" ELSE "limit"
    /\ loop_count' = IF loop_count < MAX_LOOPS THEN loop_count + 1 ELSE loop_count
    /\ tool_calls' = <<>>
    /\ idx' = 0
    /\ UNCHANGED <<provider, stub>>
    /\ UNCHANGED ctxVars
    /\ UNCHANGED fsVars

\* run: the user sends a prompt; process_bot_turn starts
UserInput ==
    /\ pc = "idle"
    /\ turn.id < MaxTurns
    /\ turn' = [NoTurn EXCEPT !.id = turn.id + 1]
    /\ IF workspace_path = NoWorkspace
       THEN /\ messages' = messages
            /\ pc' = "idle"
            /\ ended' = "no_workspace"
            /\ loop_count' = loop_count
            /\ loaded_context' = loaded_context
       ELSE /\ messages' = Append(messages,
                                  IF loaded_context # NoContext
                                  THEN UserMessage(InjectLoaded(loaded_context, UserPrompt))
                                  ELSE UserMessage(UserPrompt))
            /\ loaded_context' = NoContext
            /\ pc' = "model"
            /\ ended' = "none"
            /\ loop_count' = 1
    /\ tool_calls' = <<>>
    /\ idx' = 0
    /\ UNCHANGED <<provider, stub, managed_context>>
    /\ UNCHANGED fsVars

\* the failure text is kept in the history as an assistant message
ModelFailsRecorded ==
    /\ pc = "model"
    /\ \E response \in StubGives({[type |-> "fail"]}, "fail") :
           stub' = StubAfter(response)
    /\ turn' = [turn EXCEPT !.responses = @ + 1]
    /\ messages' = Append(messages, AssistantText(Str(<<"API", "Error">>)))
    /\ Break("api_error")
    /\ UNCHANGED <<provider, tool_calls, idx>>
    /\ UNCHANGED ctxVars
    /\ UNCHANGED fsVars

\* get_response reports failure
ModelFails ==
    /\ pc = "model"
    /\ \E response \in StubGives({[type |-> "fail"]}, "fail") :
           stub' = StubAfter(response)
    /\ turn' = [turn EXCEPT !.responses = @ + 1]
    /\ Break("api_error")
    /\ UNCHANGED <<provider, messages, tool_calls, idx>>
    /\ UNCHANGED ctxVars
    /\ UNCHANGED fsVars

\* get_response returns a text response
ModelText ==
    \E response \in StubGives({[type |-> "text", content |-> c] : c \in ReplyTexts}, "text") :
        LET content == response.content
        IN /\ pc = "model"
           /\ stub' = StubAfter(response)
           /\ turn' = [turn EXCEPT !.responses = @ + 1, !.texts = @ + 1]
           /\ messages' = Append(messages, AssistantText(content))
           /\ NextIteration(KeepRunningAfterText(content), "text")
           /\ UNCHANGED <<provider, tool_calls, idx>>
           /\ UNCHANGED ctxVars
           /\ UNCHANGED fsVars

\* get_response returns tool calls
ModelToolCalls ==
    \E response \in StubGives({[type |-> "tool_call", calls |-> b] : b \in BatchesOffered(provider)},
                              "tool_call") :
        LET calls == response.calls
        IN /\ pc = "model"
           /\ stub' = StubAfter(response)
           /\ turn' = [turn EXCEPT !.responses = @ + 1, !.toolResponses = @ + 1]
           /\ IF FormatRaises(provider, calls)
              THEN /\ Break("KeyError_name")
                   /\ UNCHANGED <<messages, tool_calls, idx>>
              ELSE /\ messages' = Append(messages, AssistantCalls(FormatCalls(provider, calls)))
                   /\ tool_calls' = calls
                   /\ idx' = 0
                   /\ pc' = "tools"
                   /\ UNCHANGED <<loop_count, ended>>
           /\ UNCHANGED provider
           /\ UNCHANGED ctxVars
           /\ UNCHANGED fsVars

\* one pass of the loop over the tool calls of the batch
DispatchCall ==
    /\ pc = "tools"
    /\ LET tool_call == tool_calls[idx + 1]
           formatted == FormatCalls(provider, tool_calls)[idx + 1]
           r == process_tool_call(tool_call, provider)
       IN /\ turn' = [turn EXCEPT !.batches = IF idx = 0 THEN @ + 1 ELSE @]
          /\ IF "id" \notin DOMAIN formatted
             THEN /\ Break("KeyError_id")
                  /\ UNCHANGED <<messages, idx, files, dirs, touched>>
             ELSE IF r.raises # None
             THEN /\ Break("tool_raised")
                  /\ UNCHANGED <<messages, idx, files, dirs, touched>>
             ELSE /\ files' = r.out.files
                  /\ dirs' = r.out.dirs
                  /\ touched' = r.out.touched
                  /\ messages' = IF Truthy(r.name)
                                 THEN Append(messages,
                                             ToolMessage(r.name, r.out.result, formatted.id))
                                 ELSE messages
                  /\ IF idx + 1 < Len(tool_calls)
                     THEN /\ idx' = idx + 1
                          /\ UNCHANGED <<pc, loop_count, ended>>
                     ELSE /\ idx' = idx + 1
                          /\ NextIteration(TRUE, "none")
    /\ UNCHANGED <<provider, tool_calls, stub>>
    /\ UNCHANGED ctxVars
    /\ UNCHANGED <<workspace_path, symlinks, last, nOps>>

Next == UserInput \/ ModelFails \/ ModelText \/ ModelToolCalls \/ DispatchCall

Spec == Init /\ [][Next]_vars

(***************************************************************************)
(* The history as it is sent to a Family B provider                        *)
(* (APIClient._transform_messages_for_google)                              *)
(***************************************************************************)
\* one functionCall part; tc['function'][...] raises KeyError when a key is
\* missing, arguments that do not load give the empty mapping
FunctionCallPart(tc) ==
    IF "function" \notin DOMAIN tc
       \/ "arguments" \notin DOMAIN tc.function \/ "name" \notin DOMAIN tc.function
    THEN [raises |-> "KeyError"]
    ELSE LET loaded == json_loads(tc.function.arguments)
         IN [raises |-> None,
             functionCall |-> [name |-> tc.function.name,
                               args |-> IF loaded.raises = None THEN loaded.value
                                        ELSE JObject(EmptyDict)]]

\* the message one message of the history becomes; system_prompt is what is
\* left of the system prompt when the message is reached (<<>>: nothing)
TransformMessage(msg, system_prompt) ==
    CASE msg.role = "assistant" /\ "tool_calls" \in DOMAIN msg /\ msg.tool_calls # <<>> ->
            LET parts == [k \in 1..Len(msg.tool_calls) |-> FunctionCallPart(msg.tool_calls[k])]
            IN IF \E k \in 1..Len(parts) : parts[k].raises # None
               THEN [raises |-> "KeyError"]
               ELSE [raises |-> None, role |-> "model",
                     parts |-> [k \in 1..Len(parts) |->
                                   [functionCall |-> parts[k].functionCall]]]
      [] msg.role = "assistant" ->
            [raises |-> None, role |-> "model", parts |-> <<[text |-> msg.content]>>]
      [] msg.role = "tool" ->
            LET loaded == json_loads(msg.content)
            IN IF loaded.raises # None THEN [raises |-> loaded.raises]
               ELSE [raises |-> None, role |-> "function",
                     parts |-> <<[functionResponse |->
                                    [name |-> msg.name,
                                     response |-> [content |-> loaded.value]]]>>]
      [] msg.role = "user" ->
            [raises |-> None, role |-> "user",
             parts |-> <<[text |-> IF system_prompt # <<>>
                                   THEN Str(system_prompt \o <<"\n\n--- USER'S TASK ---\n\n">>
                                            \o msg.content.value)
                                   ELSE msg.content]>>]

RECURSIVE TransformedEveryUser(_, _)
TransformedEveryUser(history, n) ==
    IF n = 0 THEN <<>>
    ELSE IF history[n].role = "system" THEN TransformedEveryUser(history, n - 1)
    ELSE Append(TransformedEveryUser(history, n - 1),
                TransformMessage(history[n], history[1].content.value))

\* the first loop: the messages but the system ones, the system prompt put
\* in front of the first user message
RECURSIVE Transformed(_, _)
Transformed(history, n) ==
    IF n = 0 THEN <<>>
    ELSE LET msg == history[n]
             system_prompt ==
                 IF history[1].role = "system"
                    /\ \A k \in 1..(n - 1) : history[k].role # "user"
                 THEN history[1].content.value ELSE <<>>
         IN IF msg.role = "system" THEN Transformed(history, n - 1)
            ELSE Append(Transformed(history, n - 1), TransformMessage(msg, system_prompt))

MergeFunctionsNever(transformed) == transformed

\* the second loop: function messages that follow each other become one
RECURSIVE MergeFunctions(_)
MergeFunctions(transformed) ==
    IF Len(transformed) <= 1 THEN transformed
    ELSE LET n == Len(transformed)
             front == MergeFunctions(SubSeq(transformed, 1, n - 1))
             current_msg == transformed[n]
             before == front[Len(front)]
         IN IF current_msg.role = "function" /\ before.role = "function"
            THEN [front EXCEPT ![Len(front)].parts = @ \o current_msg.parts]
            ELSE Append(front, current_msg)

transform_messages_for_google(history) ==
    LET transformed == Transformed(history, Len(history))
    IN IF \E k \in 1..Len(transformed) : transformed[k].raises # None
       THEN [raises |-> "Exception"]
       ELSE [raises |-> None,
             value |-> MergeFunctions([k \in 1..Len(transformed) |->
                          [role |-> transformed[k].role, parts |-> transformed[k].parts]])]

(***************************************************************************)
(* SpecCli: the turns of the CLI together with its commands (/new,         *)
(* /workspace, /provider, /load, /clear) and the user's interrupt.         *)
(***************************************************************************)
MaxFreeCli == 1
MaxCommands == 2

\* the paths given to /workspace: two directories, a regular file and a
\* path that does not exist
WorkspaceCandidates == {<<"w", "a">>, <<"w", "ab">>, <<"w", "a", "f">>, <<"zz">>}

ProviderNames == Providers \cup {"nope"}

\* get_all_files_in_workspace: the text files of the workspace, sorted (the
\* workspaces of the model hold no file but f)
text_files == IF IsFile(workspace_path \o <<"f">>) THEN <<TheFile>> ELSE <<>>

\* the context /load builds from the files it could read
full_context ==
    LET Block(k) ==
            LET result == read_file(text_files[k]).result
            IN IF result.success
               THEN <<"--- START OF FILE: ", "f", " ---\n">> \o result.content
                    \o <<"\n--- END OF FILE: ", "f", " ---\n\n">>
               ELSE <<>>
        RECURSIVE Blocks(_)
        Blocks(k) == IF k = 0 THEN <<>> ELSE Blocks(k - 1) \o Block(k)
    IN <<"The user has loaded the entire workspace. Here are the file contents:\n\n">>
       \o Blocks(Len(text_files))

\* start_new_chat; nothing is left of the turns of the chat before
start_new_chat ==
    /\ messages' = <<SystemMessage>>
    /\ loaded_context' = NoContext
    /\ loop_count' = 0
    /\ tool_calls' = <<>>
    /\ idx' = 0
    /\ ended' = "none"
    /\ turn' = [NoTurn EXCEPT !.id = turn.id]

\* what /workspace <path> did, as the last workspace operation
Commanded(path) ==
    [op |-> "set_workspace", args |-> [path |-> path],
     result |-> IF IsDir(path) THEN [success |-> TRUE] ELSE Failure("dir_not_found")]

\* a command or an interrupt of the user, counted in nOps
UserActs ==
    /\ nOps < MaxCommands
    /\ nOps' = nOps + 1

InitCli ==
    /\ workspace_path \in {<<"w", "a">>, NoWorkspace}
    /\ files = InitialFiles
    /\ dirs = InitialDirs
    /\ symlinks = NoLinks
    /\ touched = {}
    /\ last = NoOp
    /\ nOps = 0
    /\ \E p \in Providers : StartLoopVars(p, MaxFreeCli, "plain")

\* /new
NewChat ==
    /\ pc = "idle"
    /\ start_new_chat
    /\ UNCHANGED <<pc, provider, stub, managed_context>>
    /\ UserActs
    /\ UNCHANGED <<workspace_path, files, dirs, symlinks, touched, last>>

\* /workspace <path>, with the history kept
SetWorkspaceKeeps ==
    \E path \in WorkspaceCandidates :
        /\ pc = "idle"
        /\ IF IsDir(path)
           THEN /\ workspace_path' = path
                /\ UNCHANGED <<messages, loaded_context>>
           ELSE UNCHANGED <<workspace_path, messages, loaded_context>>
        /\ last' = Commanded(path)
        /\ UNCHANGED <<pc, provider, loop_count, tool_calls, idx, ended, turn, stub, managed_context>>
        /\ UserActs
        /\ UNCHANGED <<files, dirs, symlinks, touched>>

\* /workspace <path>
SetWorkspace ==
    \E path \in WorkspaceCandidates :
        /\ pc = "idle"
        /\ IF IsDir(path)
           THEN /\ workspace_path' = path
                /\ start_new_chat
           ELSE UNCHANGED <<workspace_path, messages, loaded_context,
                            loop_count, tool_calls, idx, ended, turn>>
        /\ last' = Commanded(path)
        /\ UNCHANGED <<pc, provider, stub, managed_context>>
        /\ UserActs
        /\ UNCHANGED <<files, dirs, symlinks, touched>>

\* /provider <name>; the model of another provider does not repeat the
\* answers of the one before
SetProvider ==
    \E name \in ProviderNames :
        /\ pc = "idle"
        /\ IF name \in Providers
           THEN /\ provider' = name
                /\ start_new_chat
                /\ stub' = IF name = provider THEN stub
                           ELSE [stub EXCEPT !.last = NoResponse]
           ELSE UNCHANGED <<provider, messages, loaded_context, stub,
                            loop_count, tool_calls, idx, ended, turn>>
        /\ UNCHANGED <<pc, managed_context>>
        /\ UserActs
        /\ UNCHANGED <<workspace_path, files, dirs, symlinks, touched, last>>

\* /load
Load ==
    /\ pc = "idle"
    /\ workspace_path # NoWorkspace
    /\ text_files # <<>>
    /\ loaded_context' = full_context
    /\ UNCHANGED <<pc, provider, messages, loop_count, tool_calls, idx, ended, turn, stub,
                   managed_context>>
    /\ UserActs
    /\ UNCHANGED <<workspace_path, files, dirs, symlinks, touched, last>>

\* /clear
ClearContext ==
    /\ pc = "idle"
    /\ loaded_context' = NoContext
    /\ UNCHANGED <<pc, provider, messages, loop_count, tool_calls, idx, ended, turn, stub,
                   managed_context>>
    /\ UserActs
    /\ UNCHANGED <<workspace_path, files, dirs, symlinks, touched, last>>

\* SIGINT while process_bot_turn waits for the model or is between two
\* passes of its loop over the batch: signal_handler raises
\* UserCancelledException, the handler of the loop breaks
Interrupt ==
    /\ pc \in {"model", "tools"}
    /\ Break("cancelled")
    /\ UNCHANGED <<provider, messages, tool_calls, idx, turn, stub>>
    /\ UNCHANGED ctxVars
    /\ UserActs
    /\ UNCHANGED <<workspace_path, files, dirs, symlinks, touched, last>>

NextCli ==
    \/ UserInput \/ ModelFails \/ ModelText \/ ModelToolCalls \/ DispatchCall
    \/ NewChat \/ SetWorkspace \/ SetProvider \/ Load \/ ClearContext
    \/ Interrupt

SpecCli == InitCli /\ [][NextCli]_vars

(***************************************************************************)
(* SpecService: the turns of AgentOrchestratorService.execute_turn over a  *)
(* ChatSessionService, with the commands that change the managed context.  *)
(* get_response is awaited: it is taken to answer as the stub does.        *)
(***************************************************************************)
MaxCopies == 3

\* the files that can be put into the managed context
ContextPaths == {RelPath(<<"a", "f">>), RelPath(<<"ab", "f">>)}

\* f"--- FILE: {path} ---\n{content}\n--- END FILE: {path} ---\n\n"
ContextBlock(entry) ==
    <<"--- FILE: ">> \o entry.path \o <<" ---\n">> \o entry.content
    \o <<"\n--- END FILE: ">> \o entry.path \o <<" ---\n\n">>

RECURSIVE ContextBlocks(_)
ContextBlocks(context) ==
    IF context = <<>> THEN <<>>
    ELSE ContextBlocks(SubSeq(context, 1, Len(context) - 1))
         \o ContextBlock(context[Len(context)])

context_str(context) ==
    <<"--- CONTEXT START ---\n">> \o ContextBlocks(context) \o <<"--- CONTEXT END ---\n\n">>

\* the copies of a context header in a text
Copies(words, header) == Cardinality({k \in 1..Len(words) : words[k] = header})

\* add_to_context: the dict keeps the place of a key it already has
add_to_context(context, file_path, content) ==
    IF \E k \in 1..Len(context) : context[k].path = file_path
    THEN [k \in 1..Len(context) |->
            IF context[k].path = file_path
            THEN [path |-> file_path, content |-> content] ELSE context[k]]
    ELSE Append(context, [path |-> file_path, content |-> content])

\* the history after get_messages_with_injected_context: the copy of the
\* list shares its messages with the history, so the last user message of
\* the history itself gets the context in front (texts are followed up to
\* MaxCopies copies)
get_messages_with_injected_context ==
    LET users == {k \in 1..Len(messages) : messages[k].role = "user"}
    IN IF managed_context = <<>> \/ users = {} THEN messages
       ELSE LET last_user_msg_idx == Max(users)
                original_content == messages[last_user_msg_idx].content
            IN IF Copies(original_content.value, "--- CONTEXT START ---\n") >= MaxCopies
               THEN messages
               ELSE [messages EXCEPT ![last_user_msg_idx].content =
                        Str(context_str(managed_context) \o original_content.value)]

should_stream == Len(messages) > 1 /\ messages[Len(messages)].role = "tool"

InitService ==
    /\ workspace_path = <<"w">>
    /\ files = InitialFiles
    /\ dirs = InitialDirs
    /\ symlinks = NoLinks
    /\ touched = {}
    /\ last = NoOp
    /\ nOps = 0
    /\ \E p \in Providers : StartLoopVars(p, MaxFreeCli, "plain")

\* /context add <path>
ContextAdd ==
    \E path \in ContextPaths :
        LET result == read_file(path).result
        IN /\ pc = "idle"
           /\ result.success
           /\ managed_context' = add_to_context(managed_context, path.segs, result.content)
           /\ UNCHANGED <<provider, messages, pc, loop_count, tool_calls, idx, ended, turn,
                          stub, loaded_context>>
           /\ UNCHANGED fsVars

\* /context clear
ContextClear ==
    /\ pc = "idle"
    /\ managed_context' = <<>>
    /\ UNCHANGED <<provider, messages, pc, loop_count, tool_calls, idx, ended, turn,
                   stub, loaded_context>>
    /\ UNCHANGED fsVars

\* /new: start_new_session
NewSession ==
    /\ pc = "idle"
    /\ messages' = <<SystemMessage>>
    /\ managed_context' = <<>>
    /\ UNCHANGED <<provider, pc, loop_count, tool_calls, idx, ended, turn, stub,
                   loaded_context>>
    /\ UNCHANGED fsVars

\* execute_turn is entered with the user's prompt
ExecuteTurn ==
    /\ pc = "idle"
    /\ turn.id < MaxTurns
    /\ turn' = [NoTurn EXCEPT !.id = turn.id + 1]
    /\ messages' = Append(messages, UserMessage(UserPrompt))
    /\ pc' = "prepare"
    /\ ended' = "none"
    /\ UNCHANGED <<provider, loop_count, tool_calls, idx, stub>>
    /\ UNCHANGED ctxVars
    /\ UNCHANGED fsVars

\* the top of the loop: the messages for the invocation are prepared
PrepareMessages ==
    /\ pc = "prepare"
    /\ messages' = get_messages_with_injected_context
    /\ pc' = "model"
    /\ UNCHANGED <<provider, loop_count, tool_calls, idx, ended, turn, stub>>
    /\ UNCHANGED ctxVars
    /\ UNCHANGED fsVars

\* get_response reports failure: the error event, return
TurnFails ==
    /\ pc = "model"
    /\ \E response \in StubGives({[type |-> "fail"]}, "fail") :
           stub' = StubAfter(response)
    /\ pc' = "idle"
    /\ ended' = "api_error"
    /\ UNCHANGED <<provider, messages, loop_count, tool_calls, idx, turn>>
    /\ UNCHANGED ctxVars
    /\ UNCHANGED fsVars

\* get_response returns a text (the chunks of one, when it streams)
TurnText ==
    \E response \in StubGives({[type |-> "text", content |-> c] : c \in ReplyTexts}, "text") :
        /\ pc = "model"
        /\ stub' = StubAfter(response)
        /\ messages' = Append(messages, AssistantText(response.content))
        /\ pc' = "idle"
        /\ ended' = "text"
        /\ UNCHANGED <<provider, loop_count, tool_calls, idx, turn>>
        /\ UNCHANGED ctxVars
        /\ UNCHANGED fsVars

\* get_response returns tool calls: a status event, and the loop goes on
TurnToolCalls ==
    \E response \in StubGives({[type |-> "tool_call", calls |-> b] : b \in BatchesOffered(provider)},
                              "tool_call") :
        /\ pc = "model"
        /\ ~should_stream
        /\ stub' = StubAfter(response)
        /\ tool_calls' = response.calls
        /\ pc' = "prepare"
        /\ UNCHANGED <<provider, messages, loop_count, idx, ended, turn>>
        /\ UNCHANGED ctxVars
        /\ UNCHANGED fsVars

TurnStep == PrepareMessages \/ TurnFails \/ TurnText \/ TurnToolCalls

NextService ==
    \/ ContextAdd \/ ContextClear \/ NewSession \/ ExecuteTurn
    \/ PrepareMessages \/ TurnFails \/ TurnText \/ TurnToolCalls

SpecService == InitService /\ [][NextService]_vars

\* a turn that can take a step takes one: the event loop runs the generator
\* while the model answers
SpecServiceLive == SpecService /\ WF_vars(TurnStep)

(***************************************************************************)
(* Properties of the workspace sandbox (checked under SpecPath)            *)
(***************************************************************************)
\* p is the directory root or lies below it
Inside(p, root) == Len(root) <= Len(p) /\ SubSeq(p, 1, Len(root)) = root

\* the canonical target of the last operation's path argument
LastTarget == realpath(PathJoin(realpath(workspace_path), last.args.path))

\* C2: whenever the canonical target of a path is neither the workspace root
\* nor below it, the operation returns the security error, and no operation
\* ever applies a file-system primitive to a path outside the root.
C2_EscapeRefused ==
    /\ \A p \in touched : Inside(p, realpath(workspace_path))
    /\ (last.op # "none" /\ ~Inside(LastTarget, realpath(workspace_path)))
           => last.result = Failure("security")

(***************************************************************************)
(* Properties of the edit engine (checked under SpecEdit).  The content of *)
(* a file is its text as a read in text mode returns it.                   *)
(***************************************************************************)
EditDone == last.op = "apply_file_edit"

ContentBefore == ReadText(last.before[EditedFile])

ContentAfter == ReadText(files[EditedFile])

FileUntouched == files = last.before

\* two occurrences of p in s that do not overlap
TwoDisjoint(s, p) ==
    \E i \in Offsets(s, p), j \in Offsets(s, p) : i < j /\ i + Len(p) <= j

\* C3 as stated: a search block that starts at more than one offset of the
\* content makes the call fail as ambiguous-exact, the file unchanged.
C3_AnyTwoOccurrences ==
    (EditDone /\ Cardinality(Offsets(ContentBefore, last.args.search_block)) > 1)
        => (last.result = Failure("ambiguous_exact") /\ FileUntouched)

\* C3 amended: a search block with two occurrences that do not overlap makes
\* the call fail as ambiguous-exact (so not by the fuzzy phase), and the file
\* is left as it was.
C3_DisjointOccurrences ==
    (EditDone /\ TwoDisjoint(ContentBefore, last.args.search_block))
        => (last.result = Failure("ambiguous_exact") /\ FileUntouched)

C3_Witness ==
    /\ EditDone
    /\ TwoDisjoint(ContentBefore, last.args.search_block)
    /\ last.args.search_block # <<>>
    /\ last.result = Failure("ambiguous_exact")

\* C4: a (non-empty) search block that occurs exactly once, content = A + search + B,
\* gives the exact-match success and the content A + replace + B.
C4_ExactReplace ==
    (/\ EditDone
     /\ last.args.search_block # <<>>
     /\ Cardinality(Offsets(ContentBefore, last.args.search_block)) = 1)
        => LET at == Min(Offsets(ContentBefore, last.args.search_block))
               A  == Slice(ContentBefore, 0, at)
               B  == Slice(ContentBefore, at + Len(last.args.search_block),
                           Len(ContentBefore))
           IN /\ last.result = Message("exact")
              /\ ContentAfter = A \o last.args.replace_block \o B

\* the windows of file lines that equal the search lines once both are stripped
Windows(content, search_block) ==
    LET fl == splitlines(content)
        sl == splitlines(search_block)
    IN {i \in 0..(Len(fl) - Len(sl)) :
            \A j \in 1..Len(sl) : strip(fl[i + j]) = strip(sl[j])}

\* C5: when the search block is no substring of the content, the number k of
\* matching windows decides the outcome: k = 0 the no-match error, k > 1 the
\* ambiguous-fuzzy error, both leaving the file as it was; k = 1 success.
C5_FuzzyOutcome ==
    (EditDone /\ ~Contains(ContentBefore, last.args.search_block))
        => LET k == Cardinality(Windows(ContentBefore, last.args.search_block))
           IN /\ k = 0 => (last.result = Failure("no_match") /\ FileUntouched)
              /\ k > 1 => (last.result = Failure("ambiguous_fuzzy") /\ FileUntouched)
              /\ k = 1 => last.result = Message("fuzzy")

C5_Witness ==
    /\ EditDone
    /\ ~Contains(ContentBefore, last.args.search_block)
    /\ Cardinality(Windows(ContentBefore, last.args.search_block)) > 1
    /\ last.result = Failure("ambiguous_fuzzy")

(***************************************************************************)
(* Properties of the autonomous loop (checked under Spec)                  *)
(***************************************************************************)
IsCallsMessage(m) == m.role = "assistant" /\ "tool_calls" \in DOMAIN m

\* the position one past the block of messages that follows message m
BlockEnd(m) ==
    LET later == {n \in (m + 1)..Len(messages) : messages[n].role = "assistant"}
    IN IF later = {} THEN Len(messages) + 1 ELSE Min(later)

\* the positions of the tool messages that answer the call with this id
Answers(m, id) ==
    {n \in (m + 1)..(BlockEnd(m) - 1) :
        messages[n].role = "tool" /\ messages[n].tool_call_id = id}

\* C1: whenever the model is about to be invoked, and when a turn has ended,
\* every tool call of every assistant tool-call message of the history is
\* answered by exactly one tool message before the next assistant message.
C1_EveryCallAnswered ==
    pc \in {"model", "idle"} =>
        \A m \in 1..Len(messages) :
            IsCallsMessage(messages[m]) =>
                \A k \in 1..Len(messages[m].tool_calls) :
                    LET call == messages[m].tool_calls[k]
                    IN /\ "id" \in DOMAIN call
                       /\ Cardinality(Answers(m, call.id)) = 1

\* C6: a turn in which every response of the model was a tool-call response
\* ends only after exactly MAX_LOOPS invocations.
C6_AlwaysToolCalls ==
    (pc = "idle" /\ turn.responses > 0 /\ turn.toolResponses = turn.responses)
        => (turn.responses = MAX_LOOPS /\ turn.batches <= MAX_LOOPS /\ ended = "limit")

LastTextUnfinished ==
    stub.last.type = "text" /\ ~Contains(stub.last.content.value, TASK_FINISHED)

Answered == LET m == Max({n \in 1..Len(messages) : messages[n].role = "assistant"})
            IN SubSeq(messages, m + 1, Len(messages))

\* the tail is the answers to the first n calls of the batch, in order
AnsweredInOrder(n) ==
    /\ Len(Answered) = n
    /\ \A k \in 1..n :
          /\ Answered[k].role = "tool"
          /\ Answered[k].tool_call_id = FormatCalls(provider, tool_calls)[k].id

\* C9: while a batch is dispatched, the calls before the current one have
\* their tool messages in the history, one each and in index order; once the
\* batch is done, so have all its calls.
C9_OneMessagePerCall ==
    /\ pc = "tools" => AnsweredInOrder(idx)
    /\ (pc = "model" /\ turn.toolResponses > 0) => AnsweredInOrder(Len(tool_calls))

\* C10: process_tool_call raises nothing for the call it is given, and no
\* turn ends because it raised.
C10_NeverRaises ==
    /\ pc = "tools" => process_tool_call(tool_calls[idx + 1], provider).raises = None
    /\ ended # "tool_raised"

\* the arguments field of a Family A call is no JSON text of a mapping
Malformed(call) ==
    /\ "function" \in DOMAIN call
    /\ "arguments" \in DOMAIN call.function
    /\ LET loaded == json_loads(call.function.arguments)
       IN loaded.raises # None \/ loaded.value.type # "object"

WellLabelled(call) ==
    /\ "id" \in DOMAIN call
    /\ "function" \in DOMAIN call
    /\ "name" \in DOMAIN call.function

\* C11: for a Family A provider, a call with an id, a name and a malformed
\* arguments field gets a failure result with no file changed, the failure is
\* in the history as the tool message with the call's id, and the turn does
\* not end at that call.
C11_MalformedArguments ==
    provider = "openai" =>
        /\ (pc = "tools" /\ WellLabelled(tool_calls[idx + 1]) /\ Malformed(tool_calls[idx + 1]))
              => LET r == process_tool_call(tool_calls[idx + 1], provider)
                 IN /\ r.raises = None
                    /\ r.out.result.success = FALSE
                    /\ r.out.files = files
                    /\ r.tool_call_id = tool_calls[idx + 1].id
        /\ \A k \in 1..idx :
              (WellLabelled(tool_calls[k]) /\ Malformed(tool_calls[k]) /\ k <= Len(Answered))
                  => /\ Answered[k].tool_call_id = tool_calls[k].id
                     /\ Answered[k].content.value.success = FALSE
        /\ (pc = "idle" /\ ended = "tool_raised") => ~Malformed(tool_calls[idx + 1])

(***************************************************************************)
(* Properties of the dispatcher (checked under SpecTool)                   *)
(***************************************************************************)
ToolDone == last.op = "execute_tool"

DiskUntouched == files = last.before /\ dirs = last.beforeDirs /\ touched = {}

\* the keys given do not fit the method: one is missing or extra, or a
\* value is not a str
Mismatched(function_name, arguments) ==
    \/ arguments.type # "object"
    \/ LET given == DOMAIN arguments.fields
           wanted == Params(function_name)
       IN \/ given \ wanted # {}
          \/ (wanted \ given) \ (IF function_name = "list_files" THEN {"path"} ELSE {}) # {}
          \/ arguments.nonstr # {}

\* C12: an unknown name gives the unknown-tool failure and arguments that do
\* not fit a registered name give the argument-mismatch failure, with the
\* disk untouched; list_files without a path lists ".".
C12_DispatchFailures ==
    ToolDone =>
        LET function_name == last.args.function_name
            arguments == last.args.arguments
        IN /\ function_name \notin ToolNames
                 => (last.result = Failure("unknown_tool") /\ DiskUntouched)
           /\ (function_name \in ToolNames /\ Mismatched(function_name, arguments))
                 => (last.result = Failure("argument_mismatch") /\ DiskUntouched)
           /\ (function_name = "list_files" /\ arguments.type = "object"
                  /\ DOMAIN arguments.fields = {})
                 => last.result = list_files(RelPath(<<".">>)).result

\* C13: a model invocation that reports failure leaves the history and the
\* disk as they were and ends the turn; the next invocation belongs to a
\* new turn.
C13_FailureEndsTurn ==
    /\ []((pc = "idle" /\ ended = "api_error") => stub.last.type = "fail")
    /\ []((stub.last.type = "fail" /\ turn.responses > 0) => pc = "idle")
    /\ [][(stub'.last.type = "fail" /\ turn'.responses = turn.responses + 1)
            => /\ messages' = messages
               /\ files' = files /\ dirs' = dirs
               /\ pc' = "idle"
               /\ ended' = "api_error"]_vars

C13_Witness ==
    /\ pc = "idle"
    /\ ended = "api_error"
    /\ turn.toolResponses > 0
    /\ messages[Len(messages)].role = "tool"

CallsMessages == {m \in 1..Len(messages) : IsCallsMessage(messages[m])}

\* C14: the step counter is the number of model invocations of the turn (the
\* one in progress included) and never passes MAX_LOOPS; no step of a turn
\* removes or reorders a message; the user input after a stop at the bound
\* starts a turn whose first invocation gets the whole history followed by
\* the new user message.
C14_StepCounter ==
    /\ [](pc = "model" => loop_count = turn.responses + 1)
    /\ [](pc = "tools" => loop_count = turn.responses)
    /\ [](loop_count <= MAX_LOOPS)
    /\ [][Len(messages') >= Len(messages)
            /\ SubSeq(messages', 1, Len(messages)) = messages]_vars
    /\ [][(pc = "idle" /\ ended = "limit" /\ pc' = "model")
            => /\ messages' = Append(messages, UserMessage(UserPrompt))
               /\ loop_count' = 1]_vars

C14_Witness ==
    /\ pc = "model"
    /\ turn.id = 2
    /\ turn.responses = 0
    /\ loop_count = 1
    /\ Cardinality(CallsMessages) = MAX_LOOPS
    /\ messages[Len(messages)] = UserMessage(UserPrompt)

(***************************************************************************)
(* Properties of the CLI with its commands (checked under SpecCli)         *)
(***************************************************************************)
\* C16: when a turn has been ended by the user's interrupt, the calls of its
\* last batch have all been executed or none of them has.
C16_NoHalfAppliedBatch ==
    (pc = "idle" /\ ended = "cancelled" /\ tool_calls # <<>>)
        => idx \in {0, Len(tool_calls)}

\* C17: the history is never empty and starts with the system prompt; a step
\* that changes the workspace root changes it to a directory and leaves the
\* history with the system message alone; a /workspace command that is
\* rejected changes neither the root nor the history.
C17_SystemPromptFirst ==
    /\ [](Len(messages) >= 1 /\ messages[1] = SystemMessage)
    /\ [][workspace_path' # workspace_path
            => (IsDir(workspace_path') /\ messages' = <<SystemMessage>>)]_vars
    /\ [][(last' # last /\ last'.op = "set_workspace" /\ ~last'.result.success)
            => (workspace_path' = workspace_path /\ messages' = messages)]_vars

\* the only command so far moved the workspace, after a turn that wrote f
C17_Witness ==
    /\ nOps = 1
    /\ last = Commanded(<<"w", "ab">>)
    /\ last.result.success
    /\ workspace_path = <<"w", "ab">>
    /\ files[<<"w", "a", "f">>] = <<"X">>
    /\ messages = <<SystemMessage>>

(***************************************************************************)
(* Properties of the services (checked under SpecService and, for          *)
(* termination, under SpecServiceLive)                                     *)
(***************************************************************************)
\* C15: a turn of execute_turn that has begun ends.
C15_TurnEnds == (pc # "idle") ~> (pc = "idle")

LastUsers == {k \in 1..Len(messages) : messages[k].role = "user"}

\* C18: the last user message never carries more than one copy of the
\* context, whatever the number of invocations of its turn; and the step
\* that injects the context clears it, so that a later turn gets none
\* unless context is loaded again.
C18_ContextInjectedOnce ==
    /\ [](LastUsers # {}
            => Copies(messages[Max(LastUsers)].content.value, "--- CONTEXT START ---\n") <= 1)
    /\ [][(pc = "prepare" /\ messages' # messages) => managed_context' = <<>>]_vars

(***************************************************************************)
(* Properties of the round trip (checked under SpecRoundTrip)              *)
(***************************************************************************)
\* C19: read_file after write_file of the text X to the same path succeeds
\* and returns X.
C19_RoundTrip ==
    last.op = "read_file"
        => last.result = [success |-> TRUE, content |-> last.args.content]

(***************************************************************************)
(* Properties of the translation between the two families (checked under   *)
(* Spec)                                                                   *)
(***************************************************************************)
\* the argument mapping of a received call; a call without one has the
\* empty mapping
ArgsOf(tc) == IF "args" \in DOMAIN tc THEN tc.args ELSE JObject(EmptyDict)

\* C20: when a batch received from the Family B provider has been stored,
\* the last message of the translated history is a model message whose
\* parts are function calls with, in the order of the received calls, the
\* name and the argument mapping of each.
C20_BatchRoundTrip ==
    (provider = "google" /\ pc = "tools" /\ idx = 0)
        => LET t == transform_messages_for_google(messages)
           IN /\ t.raises = None
              /\ LET m == t.value[Len(t.value)]
                 IN /\ m.role = "model"
                    /\ Len(m.parts) = Len(tool_calls)
                    /\ \A k \in 1..Len(tool_calls) :
                          m.parts[k] = [functionCall |->
                                           [name |-> tool_calls[k].name,
                                            args |-> ArgsOf(tool_calls[k])]]

C20_Witness ==
    /\ provider = "google"
    /\ pc = "tools"
    /\ idx = 0
    /\ Len(tool_calls) = 2
    /\ tool_calls[1].name # tool_calls[2].name
    /\ "args" \in DOMAIN tool_calls[1]
    /\ ArgsOf(tool_calls[1]) # ArgsOf(tool_calls[2])
    /\ turn.toolResponses = 2

(***************************************************************************)
(* Properties of the fuzzy phase (checked under SpecEdit)                  *)
(***************************************************************************)
FuzzyDone == EditDone /\ last.result = Message("fuzzy")

\* the index of the unique matching window
WindowAt == Min(Windows(ContentBefore, last.args.search_block))

LinesBefore == splitlines(ContentBefore)

LinesAfter == splitlines(ContentAfter)

\* the leading whitespace of a line
Indent(line) == SubSeq(line, 1, Len(line) - Len(lstrip(line)))

\* the lines the replacement has to be in the file, as C21 gives them
IndentedLines ==
    LET P == Indent(LinesBefore[WindowAt + 1])
        R == splitlines(last.args.replace_block)
    IN IF P # <<>> /\ R # <<>> /\ Indent(R[1]) = <<>>
       THEN [k \in 1..Len(R) |-> P \o R[k]]
       ELSE R

\* a run of lines is found in a sequence of lines
HasLines(lines, run) ==
    \E j \in 0..(Len(lines) - Len(run)) : Slice(lines, j, j + Len(run)) = run

\* C21: after an edit made by the fuzzy phase the file holds the lines of the
\* replacement: each with the prefix of the matched line in front when that
\* prefix is not empty and the first replacement line has no leading
\* whitespace, and as they are otherwise.
C21_UniformIndent == FuzzyDone => HasLines(LinesAfter, IndentedLines)

\* C22: after an edit made by the fuzzy phase with the window [i, i+n) the
\* lines of the file are the original lines before i, then the lines of the
\* replacement, then the original lines from i+n on: no line outside the
\* window is added, dropped or altered.
C22_OutsideWindowKept ==
    FuzzyDone =>
        LET i    == WindowAt
            n    == Len(splitlines(last.args.search_block))
            post == Len(LinesBefore) - (i + n)
        IN /\ Len(LinesAfter) >= i + post
           /\ Slice(LinesAfter, 0, i) = Slice(LinesBefore, 0, i)
           /\ Slice(LinesAfter, Len(LinesAfter) - post, Len(LinesAfter))
                 = Slice(LinesBefore, i + n, Len(LinesBefore))

\* the edit of the file "\tbar  " with the search block "bar"
TabBarEdited ==
    EditDone /\ ContentBefore = TabBar /\ last.args.search_block = Bar

\* C23 as stated: on a file whose only line with bar is "\tbar  " the edit
\* with the search block "bar" succeeds and the result reports a match made
\* by the fuzzy phase.
C23_FuzzyOnTabBar == TabBarEdited => last.result = Message("fuzzy")

\* C23 (amended): on a file whose only line with bar is "\tbar  " the edit
\* with the search block "bar" succeeds and the result reports a match made
\* by the exact phase, bar being a substring of the content; the tab in front
\* of the match and the two spaces behind it stay in the file.
C23_ExactOnTabBar ==
    TabBarEdited =>
        /\ last.result = Message("exact")
        /\ StartsWith(ContentAfter, <<TAB>>)
        /\ EndsWith(ContentAfter, <<SP, SP>>)

C23_Witness ==
    /\ TabBarEdited
    /\ last.args.replace_block = <<"X">>
    /\ last.result = Message("exact")
    /\ ContentAfter = <<TAB, "X", SP, SP>>

\* C24: an edit with the empty search block on a file that is not empty
\* returns the failure of an ambiguous exact match (it is a returned result,
\* nothing is raised) and leaves the file as it was.
C24_EmptySearchAmbiguous ==
    (EditDone /\ last.args.search_block = <<>> /\ ContentBefore # <<>>)
        => (last.result = Failure("ambiguous_exact") /\ FileUntouched)

C24_Witness ==
    /\ EditDone
    /\ last.args.search_block = <<>>
    /\ last.args.replace_block = <<"X">>
    /\ ContentBefore = <<"a">>
    /\ last.result = Failure("ambiguous_exact")
    /\ files[EditedFile] = <<"a">>

(***************************************************************************)
(* Properties of the translation for the Family B provider (under Spec)    *)
(***************************************************************************)
IsUser(m) == m.role = "user"

\* the text the system prompt and a user text make
Prefixed(system_prompt, text) ==
    Str(system_prompt.value \o <<"\n\n--- USER'S TASK ---\n\n">> \o text.value)

\* C25: the translation of a history that starts with a system message has
\* no entry with the role system; its first user entry has the system
\* content in front of the text of the first user message, and every later
\* user entry has the text of its user message as it is.  This holds for the
\* history at every request of the turn loop, each of which translates the
\* whole history again.
C25_SystemPromptOnce ==
    (provider = "google" /\ messages[1].role = "system")
        => LET t == transform_messages_for_google(messages)
           IN t.raises = None =>
                 LET users   == SelectSeq(messages, IsUser)
                     entries == SelectSeq(t.value, IsUser)
                 IN /\ \A k \in 1..Len(t.value) : t.value[k].role # "system"
                    /\ Len(entries) = Len(users)
                    /\ \A k \in 1..Len(users) :
                          entries[k].parts =
                              <<[text |-> IF k = 1
                                          THEN Prefixed(messages[1].content, users[1].content)
                                          ELSE users[k].content]>>

C25_Witness ==
    /\ provider = "google"
    /\ pc = "model"
    /\ messages[1].role = "system"
    /\ Len(SelectSeq(messages, IsUser)) = 2
    /\ transform_messages_for_google(messages).raises = None
    /\ Len(transform_messages_for_google(messages).value) > 3

IsFunction(m) == m.role = "function"

IsNoFunction(m) == m.role # "function"

\* the entries the messages of the history become one by one
PerMessage ==
    LET transformed == Transformed(messages, Len(messages))
    IN [k \in 1..Len(transformed) |->
           [role |-> transformed[k].role, parts |-> transformed[k].parts]]

\* the parts of a sequence of entries, in order
RECURSIVE AllParts(_)
AllParts(entries) ==
    IF entries = <<>> THEN <<>>
    ELSE entries[1].parts \o AllParts(Tail(entries))

\* the number of maximal runs of function entries
Runs(entries) ==
    Cardinality({k \in 1..Len(entries) :
                    /\ entries[k].role = "function"
                    /\ (k = 1 \/ entries[k - 1].role # "function")})

\* C26: the translation has no two function entries next to each other;
\* it has one function entry for each maximal run of tool messages, the
\* function-response parts of all of them are those of the tool messages in
\* the original number and order, and the other entries are those of the
\* other messages, in their order.
C26_FunctionRunsMerged ==
    (provider = "google" /\ transform_messages_for_google(messages).raises = None)
        => LET out == transform_messages_for_google(messages).value
           IN /\ \A k \in 1..(Len(out) - 1) :
                    ~(out[k].role = "function" /\ out[k + 1].role = "function")
              /\ Len(SelectSeq(out, IsFunction)) = Runs(PerMessage)
              /\ AllParts(SelectSeq(out, IsFunction))
                    = AllParts(SelectSeq(PerMessage, IsFunction))
              /\ SelectSeq(out, IsNoFunction) = SelectSeq(PerMessage, IsNoFunction)

C26_Witness ==
    /\ provider = "google"
    /\ Len(messages) >= 4
    /\ messages[3].role = "assistant"
    /\ messages[4].role = "tool"
    /\ Len(messages) >= 5
    /\ messages[5].role = "tool"
    /\ transform_messages_for_google(messages).raises = None
    /\ Len(transform_messages_for_google(messages).value[3].parts) = 2
    /\ Len(transform_messages_for_google(messages).value) > 3

\* the assistant tool-call message a tool message at position n follows
BatchOf(n) == Max({m \in CallsMessages : m < n})

\* C27: with the Family B provider the i-th call of every stored batch has
\* the id call_i, counted from 0 in every batch; the tool message recorded
\* for the i-th call has the tool_call_id call_i; and the id of every tool
\* message is the id of exactly one call of the assistant message before it.
C27_SyntheticIds ==
    /\ [](provider = "google" =>
            /\ \A m \in CallsMessages : \A i \in 1..Len(messages[m].tool_calls) :
                  messages[m].tool_calls[i].id = SyntheticId(i - 1)
            /\ \A n \in 1..Len(messages) : messages[n].role = "tool" =>
                  /\ \E m \in CallsMessages : m < n
                  /\ Cardinality({i \in 1..Len(messages[BatchOf(n)].tool_calls) :
                        messages[BatchOf(n)].tool_calls[i].id = messages[n].tool_call_id}) = 1)
    /\ [][(provider = "google" /\ pc = "tools" /\ messages' # messages)
             => /\ messages' = Append(messages, messages'[Len(messages')])
                /\ messages'[Len(messages')].role = "tool"
                /\ messages'[Len(messages')].tool_call_id = SyntheticId(idx)]_vars

C27_Witness ==
    /\ provider = "google"
    /\ Cardinality(CallsMessages) = 2
    /\ Len(tool_calls) = 2
    /\ idx = 2
    /\ messages[Len(messages)].role = "tool"
    /\ messages[Len(messages)].tool_call_id = "call_1"
    /\ messages[Len(messages) - 1].role = "tool"
    /\ messages[Len(messages) - 1].tool_call_id = "call_0"

(***************************************************************************)
(* Properties of the chat session (checked under SpecService)              *)
(***************************************************************************)
\* C28: a call of get_messages_with_injected_context leaves every message
\* of the session with the content it had, and a second call returns what
\* the first returned.
C28_SessionUnchanged ==
    [][pc = "prepare"
          => /\ messages' = messages
             /\ get_messages_with_injected_context' = get_messages_with_injected_context]_vars

(***************************************************************************)
(* Further properties of the exact phase (checked under SpecEdit)          *)
(***************************************************************************)
StartOffsets == Offsets(ContentBefore, last.args.search_block)

\* C29 as stated: an exact-match success is reported only when the search
\* block starts at exactly one offset of the content; when it starts at two
\* or more offsets, overlapping occurrences included, the call fails as
\* ambiguous and the file is left as it was.
C29_OneOffsetOnly ==
    EditDone =>
        /\ last.result = Message("exact") => Cardinality(StartOffsets) = 1
        /\ Cardinality(StartOffsets) >= 2
              => (last.result = Failure("ambiguous_exact") /\ FileUntouched)

\* C29 (amended): an exact-match success is reported only when the search
\* block occurs in the content and no two of its occurrences are disjoint;
\* two disjoint occurrences make the call fail as ambiguous with the file
\* left as it was, and occurrences that all overlap (aa in aaa) count as
\* one: the call succeeds by exact match.
C29_OneCountedOccurrence ==
    EditDone =>
        /\ last.result = Message("exact")
              => (StartOffsets # {} /\ ~TwoDisjoint(ContentBefore, last.args.search_block))
        /\ TwoDisjoint(ContentBefore, last.args.search_block)
              => (last.result = Failure("ambiguous_exact") /\ FileUntouched)
        /\ (Cardinality(StartOffsets) >= 2
              /\ ~TwoDisjoint(ContentBefore, last.args.search_block))
              => last.result = Message("exact")

C29_Witness ==
    /\ EditDone
    /\ ContentBefore = <<"a", "a", "a">>
    /\ last.args.search_block = <<"a", "a">>
    /\ last.args.replace_block = <<"X">>
    /\ last.result = Message("exact")
    /\ ContentAfter = <<"X", "a">>

\* C30: an edit with the empty search block never succeeds and never
\* changes the file, whatever the content of the file, the empty file
\* included, and whatever the replacement.
C30_EmptySearchNeverApplied ==
    (EditDone /\ last.args.search_block = <<>>)
        => (~last.result.success /\ FileUntouched)

====
